---- MODULE Spec2Model ----
(***************************************************************************)
(* Unit-of-Work over a SQLAlchemy session (domain_impl.py, services.py,    *)
(* mappers.py, uow_example.py; the same protocol as uow_v1.py).            *)
(*                                                                         *)
(* A caller owns UoW instances.  `with uow:` runs __enter__, a scope body  *)
(* (the purchase workflow of uow_example.py, a users.get lookup, or a      *)
(* create_invoice for a given user id) and __exit__.  Each action below is *)
(* one whole call made by one caller; the calls of different UoW instances *)
(* interleave.                                                             *)
(***************************************************************************)
EXTENDS Integers, Sequences, FiniteSets

\* Number of UoW instances, and of sessions the session factory hands out.
MaxScopes == 2

Uows == 1..MaxScopes
Handles == 1..MaxScopes

\* Python's None for an Optional[Session] / an unassigned primary key.
None == 0

\* uow_example.py: the literals of purchase_workflow_use_case.
Email == "michelle@example.com"
AmountCents == 10000

VARIABLES
    db,           \* committed storage: the users, invoices and audit tables
    sessions,     \* every Session the factory produced (the transaction handles)
    made,         \* how many sessions the session factory produced so far
    session,      \* uow._session
    user_repo,    \* uow.user_repo._s   (None: attribute not assigned yet)
    invoice_repo, \* uow.invoice_repo._s
    audit_repo,   \* uow.audit_repo._s
    pc,           \* where the caller of each UoW instance stands
    user_id,      \* local of purchase_workflow_use_case
    invoice_id,   \* local of purchase_workflow_use_case
    exc,          \* the exception the scope body raised (chain, newest first)
    raised,       \* what the `with` statement raised to the caller (chain)
    printed,      \* the invoice id main() printed for the current scope
    got,          \* the result of the caller's last users.get
    flush_result, \* how the caller's last uow.flush() ended
    bill_arg,     \* the user_id the caller passed to create_invoice on its own
    mapped,       \* a value on its way through DomainEntityMapper
    v1            \* the program of uow_v1.py run on the same calls (see below)

vars == <<db, sessions, made, session, user_repo, invoice_repo, audit_repo,
          pc, user_id, invoice_id, exc, raised, printed, got, flush_result, bill_arg, mapped, v1>>

----------------------------------------------------------------------------
(* mappers.py *)

new_user_to_row(user) == [id |-> None, email |-> user.email]

user_row_to_domain(row) == [id |-> row.id, email |-> row.email]

\* Variant: the two fields of the invoice change places.
new_invoice_to_row_swapped(invoice) ==
    [id |-> None, user_id |-> invoice.amount_cents, amount_cents |-> invoice.user_id]

new_invoice_to_row(invoice) ==
    [id |-> None, user_id |-> invoice.user_id, amount_cents |-> invoice.amount_cents]

\* Variant: the invoice takes the key of the row as its user.
invoice_row_to_domain_keyed(row) ==
    [id |-> row.id, user_id |-> row.id, amount_cents |-> row.amount_cents]

invoice_row_to_domain(row) ==
    [id |-> row.id, user_id |-> row.user_id, amount_cents |-> row.amount_cents]

audit_entry_to_row(entry) == [id |-> None, message |-> entry.message]

\* Looking up a method DomainEntityMapper does not have.
AttributeError == [id |-> None, error |-> "AttributeError"]

\* The methods from a domain value to its row, by kind of value.
to_row(kind, x) ==
    CASE kind = "user" -> new_user_to_row(x)
      [] kind = "invoice" -> new_invoice_to_row(x)
      [] kind = "audit" -> audit_entry_to_row(x)

\* The methods from a row to its domain value; there is none for an audit row.
row_to_domain(kind, row) ==
    CASE kind = "user" -> user_row_to_domain(row)
      [] kind = "invoice" -> invoice_row_to_domain(row)
      [] OTHER -> AttributeError

\* No value is passing through the mapper.
NotMapped == [kind |-> "none", stage |-> "idle", x |-> [id |-> None], v |-> [id |-> None]]

----------------------------------------------------------------------------
(* The transaction handle: sqlalchemy.orm.Session over sqlite.             *)
(* st: "unused" (not produced yet), "created", "begun", "closed".          *)
(* pending: rows added and not flushed; flushed: rows written inside the   *)
(* open transaction; wrote: rows its commit made durable; calls: the       *)
(* methods invoked on it, each with the function that invoked it and       *)
(* whether it returned (ok) or raised.                                     *)

EmptyTables == [users |-> {}, invoices |-> {}, audit |-> {}]
EmptyPending == [users |-> <<>>, invoices |-> <<>>, audit |-> <<>>]

NewSession ==
    [st |-> "unused", pending |-> EmptyPending, flushed |-> EmptyTables,
     wrote |-> EmptyTables, committed |-> FALSE, calls |-> <<>>]

Logged(s, op, by, ok) ==
    [s EXCEPT !.calls = Append(@, [op |-> op, by |-> by, ok |-> ok])]

Ids(rows) == {r.id : r \in rows}

MaxOf(S) == IF S = {} THEN 0 ELSE CHOOSE m \in S : \A x \in S : x <= m

\* Variant: keys counted from 1 whatever the table holds.
AssignIds_from_one(rows, used) == {[rows[i] EXCEPT !.id = i] : i \in 1..Len(rows)}

\* autoincrement primary key (db_models.py): sqlite gives max(rowid) + 1.
RECURSIVE AssignIds(_, _)
AssignIds(rows, used) ==
    IF rows = <<>> THEN {}
    ELSE LET r == [Head(rows) EXCEPT !.id = MaxOf(used) + 1]
         IN  {r} \cup AssignIds(Tail(rows), used \cup {r.id})

HasPending(s) ==
    s.pending.users # <<>> \/ s.pending.invoices # <<>> \/ s.pending.audit # <<>>

HasFlushed(s) == s.flushed # EmptyTables

\* sqlite admits one writing transaction at a time: a flush that has rows to
\* write succeeds only while no other open transaction has written.
NoOtherWriter(ss, h) ==
    \A o \in Handles \ {h} : ~(ss[o].st = "begun" /\ HasFlushed(ss[o]))

CanWrite(ss, h) == HasPending(ss[h]) => NoOtherWriter(ss, h)

\* What the transaction of s sees of a table.
View(s, d, t) == d[t] \cup s.flushed[t]

Flushed(s, d) ==
    [s EXCEPT
        !.flushed = [t \in {"users", "invoices", "audit"} |->
                        s.flushed[t] \cup AssignIds(s.pending[t], Ids(View(s, d, t)))],
        !.pending = EmptyPending]

SessionBegin(s, by, ok) ==
    IF ok THEN [Logged(s, "begin", by, TRUE) EXCEPT !.st = "begun"]
    ELSE Logged(s, "begin", by, FALSE)

SessionAdd(s, t, row, by) ==
    [Logged(s, "add", by, TRUE) EXCEPT !.pending[t] = Append(@, row)]

SessionFlush(s, d, by, ok) ==
    IF ok THEN Flushed(Logged(s, "flush", by, TRUE), d)
    ELSE Logged(s, "flush", by, FALSE)

\* Session.get(DBUserRow, id): the row as a set of at most one element.
SessionGet(s, d, id) == {r \in View(s, d, "users") : r.id = id}

\* Variant: commit() that leaves out what was added and not flushed.
SessionCommit_without_flush(s, d, by, ok) ==
    IF ok
    THEN LET f == [Logged(s, "commit", by, TRUE) EXCEPT !.pending = EmptyPending]
         IN  [s |-> [f EXCEPT !.wrote = f.flushed, !.flushed = EmptyTables,
                               !.committed = TRUE],
              db |-> [t \in {"users", "invoices", "audit"} |-> d[t] \cup f.flushed[t]]]
    ELSE [s |-> Logged(s, "commit", by, FALSE), db |-> d]

\* commit() flushes what is pending, then makes the transaction durable.
SessionCommit(s, d, by, ok) ==
    IF ok
    THEN LET f == Flushed(Logged(s, "commit", by, TRUE), d)
         IN  [s |-> [f EXCEPT !.wrote = f.flushed, !.flushed = EmptyTables,
                               !.committed = TRUE],
              db |-> [t \in {"users", "invoices", "audit"} |-> d[t] \cup f.flushed[t]]]
    ELSE [s |-> Logged(s, "commit", by, FALSE), db |-> d]

\* rollback() discards the transaction; when it raises, close() discards it.
SessionRollback(s, by, ok) ==
    IF ok
    THEN [Logged(s, "rollback", by, TRUE) EXCEPT !.pending = EmptyPending,
                                                 !.flushed = EmptyTables]
    ELSE Logged(s, "rollback", by, FALSE)

SessionClose(s, by) ==
    [Logged(s, "close", by, TRUE) EXCEPT !.st = "closed", !.pending = EmptyPending,
                                         !.flushed = EmptyTables]

\* A Session that was closed begins a new transaction at its next use.
SessionAutobegin(s) == IF s.st = "closed" THEN [s EXCEPT !.st = "begun"] ELSE s

\* The row object a repository added last, read back after the flush.
LastFlushed(s, t) == CHOOSE r \in s.flushed[t] : \A o \in s.flushed[t] : o.id <= r.id

----------------------------------------------------------------------------
(* domain_impl.py: the repositories.  ss is the family of sessions, h the  *)
(* session the repository is bound to (its _s); the result is the new      *)
(* family, the returned value and the error raised ("" when none).         *)

InfraError == "InfrastructureError"

\* Variant: a missing row is an error.
SqlAlchemyUserRepo_get_or_raise(ss, d, h, id, ok) ==
    LET found == SessionGet(ss[h], d, id)
        s == Logged(ss[h], "get", "SqlAlchemyUserRepo.get", ok)
    IN  [ss |-> [ss EXCEPT ![h] = s],
         err |-> IF ~ok THEN InfraError ELSE IF found = {} THEN "LookupError" ELSE "",
         ret |-> IF ok THEN {user_row_to_domain(r) : r \in found} ELSE {}]

SqlAlchemyUserRepo_get(ss, d, h, id, ok) ==
    LET s == Logged(ss[h], "get", "SqlAlchemyUserRepo.get", ok)
        row == SessionGet(s, d, id)
    IN  [ss |-> [ss EXCEPT ![h] = s],
         err |-> IF ok THEN "" ELSE InfraError,
         ret |-> IF ok THEN {user_row_to_domain(r) : r \in row} ELSE {}]

SqlAlchemyUserRepo_add(ss, d, h, user, ok) ==
    LET row == new_user_to_row(user)
        a == SessionAdd(ss[h], "users", row, "SqlAlchemyUserRepo.add")
        f == SessionFlush(a, d, "SqlAlchemyUserRepo.add", ok)
    IN  [ss |-> [ss EXCEPT ![h] = f],
         err |-> IF ok THEN "" ELSE InfraError,
         ret |-> IF ok THEN user_row_to_domain(LastFlushed(f, "users"))
                 ELSE user_row_to_domain(row)]

\* Variant: the repository commits its own write.
SqlAlchemyInvoiceRepo_add_committing(ss, d, h, invoice, ok) ==
    LET row == new_invoice_to_row(invoice)
        a == SessionAdd(ss[h], "invoices", row, "SqlAlchemyInvoiceRepo.add")
        f == SessionFlush(a, d, "SqlAlchemyInvoiceRepo.add", ok)
    IN  [ss |-> [ss EXCEPT ![h] = Logged(f, "commit", "SqlAlchemyInvoiceRepo.add", ok)],
         err |-> IF ok THEN "" ELSE InfraError,
         ret |-> IF ok THEN invoice_row_to_domain(LastFlushed(f, "invoices"))
                 ELSE invoice_row_to_domain(row)]

SqlAlchemyInvoiceRepo_add(ss, d, h, invoice, ok) ==
    LET row == new_invoice_to_row(invoice)
        a == SessionAdd(ss[h], "invoices", row, "SqlAlchemyInvoiceRepo.add")
        f == SessionFlush(a, d, "SqlAlchemyInvoiceRepo.add", ok)
    IN  [ss |-> [ss EXCEPT ![h] = f],
         err |-> IF ok THEN "" ELSE InfraError,
         ret |-> IF ok THEN invoice_row_to_domain(LastFlushed(f, "invoices"))
                 ELSE invoice_row_to_domain(row)]

\* Variant: record() flushes as the add() methods do.
SqlAlchemyAuditRepo_record_flushing(ss, d, h, entry) ==
    LET a == SessionAdd(ss[h], "audit", audit_entry_to_row(entry),
                        "SqlAlchemyAuditRepo.record")
    IN  [ss |-> [ss EXCEPT ![h] = SessionFlush(a, d, "SqlAlchemyAuditRepo.record", TRUE)],
         err |-> ""]

SqlAlchemyAuditRepo_record(ss, d, h, entry) ==
    [ss |-> [ss EXCEPT ![h] = SessionAdd(ss[h], "audit", audit_entry_to_row(entry),
                                         "SqlAlchemyAuditRepo.record")],
     err |-> ""]

----------------------------------------------------------------------------
(* services.py.  hu, hi, ha: the sessions behind the service's user_repo,  *)
(* invoice_repo and audit_repo.                                            *)

UserService_register_user(ss, d, hu, email, ok) ==
    LET created_user == SqlAlchemyUserRepo_add(ss, d, hu, [email |-> email], ok)
    IN  [ss |-> created_user.ss, err |-> created_user.err, ret |-> created_user.ret.id]

\* Variant: the result of the lookup is not examined.
BillingService_create_invoice_unchecked(ss, d, hu, hi, uid, amount_cents, okGet, okFlush) ==
    LET found == SqlAlchemyUserRepo_get(ss, d, hu, uid, okGet)
        created_invoice ==
            SqlAlchemyInvoiceRepo_add(found.ss, d, hi,
                [user_id |-> uid, amount_cents |-> amount_cents], okFlush)
    IN  IF found.err # "" THEN [ss |-> found.ss, err |-> found.err, ret |-> None]
        ELSE [ss |-> created_invoice.ss, err |-> created_invoice.err,
              ret |-> created_invoice.ret.id]

BillingService_create_invoice(ss, d, hu, hi, uid, amount_cents, okGet, okFlush) ==
    LET found == SqlAlchemyUserRepo_get(ss, d, hu, uid, okGet)
        created_invoice ==
            SqlAlchemyInvoiceRepo_add(found.ss, d, hi,
                [user_id |-> uid, amount_cents |-> amount_cents], okFlush)
    IN  IF found.err # "" THEN [ss |-> found.ss, err |-> found.err, ret |-> None]
        ELSE IF found.ret = {}
        THEN [ss |-> found.ss, err |-> "ValueError: user not found", ret |-> None]
        ELSE [ss |-> created_invoice.ss, err |-> created_invoice.err,
              ret |-> created_invoice.ret.id]

AuditService_record(ss, d, ha, message) ==
    SqlAlchemyAuditRepo_record(ss, d, ha, [message |-> message])

\* f"purchase: user_id={user_id} invoice_id={invoice_id}"
PurchaseMessage(uid, iid) == <<"purchase", uid, iid>>

----------------------------------------------------------------------------
(* domain_impl.py: SqlAlchemyUnitOfWork and make_uow_factory.              *)

\* Variant: the factory hands out one shared Session.
SessionFactory_shared(n) == 1

\* sessionmaker(): every call makes a new Session.
SessionFactory(n) == n + 1

\* Variant: the audit repository is built on the first session ever made.
deps_factory_stale(s) == [user_repo |-> s, invoice_repo |-> s, audit_repo |-> 1]

\* deps_factory(s): the three repositories, each constructed on s.
deps_factory(s) == [user_repo |-> s, invoice_repo |-> s, audit_repo |-> s]

\* The state of a UoW instance, read off its _session.
UowState(u) ==
    IF session[u] = None THEN "Unopened"
    ELSE LET s == sessions[session[u]]
         IN  IF s.st = "created" THEN "Unopened"
             ELSE IF s.st = "begun" THEN "Active"
             ELSE IF s.committed THEN "Committed" ELSE "RolledBack"

\* Variant: __exit__ returns True, which suppresses the exception in flight.
Propagated_suppressing(chain, err) == IF err = "" THEN <<>> ELSE <<err>> \o chain

\* Variant: the error of commit() or rollback() is raised `from None`.
Propagated_without_context(chain, err) == IF err = "" THEN chain ELSE <<err>>

\* What leaves __exit__: it returns False, so the exception in flight goes on
\* to the caller; an error raised by commit() or rollback() replaces it and
\* carries it as its __context__.
Propagated(chain, err) == IF err = "" THEN chain ELSE <<err>> \o chain

\* __enter__.  It starts a scope: the locals of the body are fresh.
uow_enter(u) ==
    /\ made < MaxScopes
    /\ \E ok \in BOOLEAN :
        LET h == SessionFactory(made)
            begun == SessionBegin([NewSession EXCEPT !.st = "created"],
                                  "SqlAlchemyUnitOfWork.__enter__", ok)
            deps == deps_factory(h)
        IN  /\ made' = h
            /\ session' = [session EXCEPT ![u] = h]
            /\ sessions' = [sessions EXCEPT ![h] = begun]
            /\ IF ok
               THEN /\ user_repo' = [user_repo EXCEPT ![u] = deps.user_repo]
                    /\ invoice_repo' = [invoice_repo EXCEPT ![u] = deps.invoice_repo]
                    /\ audit_repo' = [audit_repo EXCEPT ![u] = deps.audit_repo]
                    /\ pc' = [pc EXCEPT ![u] = "body"]
                    /\ raised' = [raised EXCEPT ![u] = <<>>]
               ELSE /\ UNCHANGED <<user_repo, invoice_repo, audit_repo>>
                    /\ pc' = [pc EXCEPT ![u] = "enter_failed"]
                    /\ raised' = [raised EXCEPT ![u] = <<InfraError>>]
    /\ user_id' = [user_id EXCEPT ![u] = None]
    /\ invoice_id' = [invoice_id EXCEPT ![u] = None]
    /\ exc' = [exc EXCEPT ![u] = <<>>]
    /\ printed' = [printed EXCEPT ![u] = None]
    /\ got' = [got EXCEPT ![u] = [id |-> None, ret |-> {}]]
    /\ flush_result' = [flush_result EXCEPT ![u] = "none"]
    /\ bill_arg' = [bill_arg EXCEPT ![u] = None]
    /\ UNCHANGED <<db, mapped>>

\* Variant: commit without looking at exc_type.
uow_exit_block_always_commit(s, d, clean, ok) ==
    LET by == "SqlAlchemyUnitOfWork.__exit__"
        c == SessionCommit(s, d, by, ok)
    IN  [s |-> SessionClose(c.s, by), db |-> c.db,
         err |-> IF ok THEN "" ELSE "CommitError"]

\* Variant: a clean exit only closes the session.
uow_exit_block_no_commit(s, d, clean, ok) ==
    LET by == "SqlAlchemyUnitOfWork.__exit__"
        r == SessionRollback(s, by, ok)
    IN  [s |-> SessionClose(IF clean THEN s ELSE r, by), db |-> d,
         err |-> IF ok \/ clean THEN "" ELSE "RollbackError"]

\* Variant: close() after the try block instead of in its finally clause.
uow_exit_block_no_finally(s, d, clean, ok) ==
    LET by == "SqlAlchemyUnitOfWork.__exit__"
        c == SessionCommit(s, d, by, ok)
        r == SessionRollback(s, by, ok)
        ended == IF clean THEN c.s ELSE r
    IN  [s |-> IF ok THEN SessionClose(ended, by) ELSE ended,
         db |-> IF clean THEN c.db ELSE d,
         err |-> IF ok THEN "" ELSE IF clean THEN "CommitError" ELSE "RollbackError"]

\* The try/finally of __exit__ on session s: commit when no exception is in
\* flight (clean), else rollback; close in either case.  err is the error the
\* block raises ("" when none).
uow_exit_block(s, d, clean, ok) ==
    LET by == "SqlAlchemyUnitOfWork.__exit__"
        c == SessionCommit(s, d, by, ok)
        r == SessionRollback(s, by, ok)
    IN  [s |-> SessionClose(IF clean THEN c.s ELSE r, by),
         db |-> IF clean THEN c.db ELSE d,
         err |-> IF ok THEN "" ELSE IF clean THEN "CommitError" ELSE "RollbackError"]

\* __exit__(exc_type, exc, tb).
uow_exit(u) ==
    /\ session[u] # None
    /\ \E ok \in BOOLEAN :
        LET h == session[u]
            clean == exc[u] = <<>>
            x == uow_exit_block(sessions[h], db, clean, ok)
        IN  /\ (ok /\ clean) => CanWrite(sessions, h)
            /\ db' = x.db
            /\ sessions' = [sessions EXCEPT ![h] = x.s]
            /\ raised' = [raised EXCEPT ![u] = Propagated(exc[u], x.err)]
    /\ pc' = [pc EXCEPT ![u] = "exited"]
    /\ UNCHANGED <<made, session, user_repo, invoice_repo, audit_repo,
                   user_id, invoice_id, exc, printed, got, flush_result, bill_arg, mapped>>

\* flush().  Outside a scope body its error goes straight to the caller.
uow_flush(u) ==
    /\ IF session[u] = None
       THEN /\ flush_result' = [flush_result EXCEPT ![u] = "AssertionError"]
            /\ UNCHANGED <<sessions, exc, pc>>
       ELSE \E ok \in BOOLEAN :
            LET h == session[u] IN
            /\ ok => CanWrite(sessions, h)
            /\ ~ok => HasPending(sessions[h])
            /\ sessions' = [sessions EXCEPT ![h] =
                    SessionFlush(sessions[h], db, "SqlAlchemyUnitOfWork.flush", ok)]
            /\ flush_result' = [flush_result EXCEPT ![u] = IF ok THEN "ok" ELSE InfraError]
            /\ IF pc[u] = "exited" THEN pc' = [pc EXCEPT ![u] = "exited_flushed"] /\ UNCHANGED exc
               ELSE IF ok THEN pc' = [pc EXCEPT ![u] = "flushed"] /\ UNCHANGED exc
               ELSE /\ exc' = [exc EXCEPT ![u] = <<InfraError>>]
                    /\ pc' = [pc EXCEPT ![u] = "raising"]
    /\ UNCHANGED <<db, made, session, user_repo, invoice_repo, audit_repo,
                   user_id, invoice_id, raised, printed, got, bill_arg, mapped>>

----------------------------------------------------------------------------
(* uow_example.py: the caller.  main() runs `with create_uow() as uow:`,   *)
(* builds the services on uow.user_repo / invoice_repo / audit_repo and    *)
(* runs purchase_workflow_use_case; a second kind of scope only looks a    *)
(* user up.                                                                *)

Fail(u, e) ==
    /\ exc' = [exc EXCEPT ![u] = <<e>>]
    /\ pc' = [pc EXCEPT ![u] = "raising"]

\* `with create_uow() as uow:` on a new instance; the instances are made in
\* the order of their numbers.
With(u) ==
    /\ pc[u] = "new"
    /\ \A v \in Uows : v < u => pc[v] # "new"
    /\ uow_enter(u)
    /\ UNCHANGED v1

\* `with uow:` again, on an instance whose scope has exited.
Reenter(u) ==
    /\ pc[u] \in {"exited", "exited_flushed"}
    /\ uow_enter(u)
    /\ UNCHANGED v1

\* user_id = user_service.register_user('michelle@example.com')
RegisterUser_example(u) ==
    /\ pc[u] = "body"
    /\ \E ok \in BOOLEAN :
        LET r == UserService_register_user(sessions, db, user_repo[u], Email, ok) IN
        /\ ok => NoOtherWriter(sessions, user_repo[u])
        /\ sessions' = r.ss
        /\ IF r.err = ""
           THEN /\ user_id' = [user_id EXCEPT ![u] = r.ret]
                /\ pc' = [pc EXCEPT ![u] = "registered"]
                /\ UNCHANGED exc
           ELSE Fail(u, r.err) /\ UNCHANGED user_id
    /\ UNCHANGED <<db, made, session, user_repo, invoice_repo, audit_repo,
                   invoice_id, raised, printed, got, flush_result, bill_arg, mapped>>

\* invoice_id = billing_service.create_invoice(user_id, 10000)
CreateInvoice_example(u) ==
    /\ pc[u] = "registered"
    /\ \E okGet, okFlush \in BOOLEAN :
        LET r == BillingService_create_invoice(sessions, db, user_repo[u],
                     invoice_repo[u], user_id[u], AmountCents, okGet, okFlush) IN
        /\ okGet \/ okFlush
        /\ okFlush => NoOtherWriter(sessions, invoice_repo[u])
        /\ sessions' = r.ss
        /\ IF r.err = ""
           THEN /\ invoice_id' = [invoice_id EXCEPT ![u] = r.ret]
                /\ pc' = [pc EXCEPT ![u] = "invoiced"]
                /\ UNCHANGED exc
           ELSE Fail(u, r.err) /\ UNCHANGED invoice_id
    /\ UNCHANGED <<db, made, session, user_repo, invoice_repo, audit_repo,
                   user_id, raised, printed, got, flush_result, bill_arg, mapped>>

\* audit_service.record(f"purchase: user_id={user_id} invoice_id={invoice_id}")
RecordAudit_example(u) ==
    /\ pc[u] = "invoiced"
    /\ LET r == AuditService_record(sessions, db, audit_repo[u],
                    PurchaseMessage(user_id[u], invoice_id[u])) IN
        sessions' = r.ss
    /\ pc' = [pc EXCEPT ![u] = "audited"]
    /\ UNCHANGED <<db, made, session, user_repo, invoice_repo, audit_repo,
                   user_id, invoice_id, exc, raised, printed, got, flush_result, bill_arg, mapped>>

\* print("invoice_id:", invoice_id)
PrintInvoiceId_example(u) ==
    /\ pc[u] \in {"audited", "flushed"}
    /\ printed' = [printed EXCEPT ![u] = invoice_id[u]]
    /\ pc' = [pc EXCEPT ![u] = "printed"]
    /\ UNCHANGED <<db, sessions, made, session, user_repo, invoice_repo, audit_repo,
                   user_id, invoice_id, exc, raised, got, flush_result, bill_arg, mapped>>

\* A scope whose body is uow.user_repo.get(id).
LookupUser_example(u) ==
    /\ pc[u] = "body"
    /\ \E id \in 1..MaxScopes, ok \in BOOLEAN :
        LET r == SqlAlchemyUserRepo_get(sessions, db, user_repo[u], id, ok) IN
        /\ sessions' = r.ss
        /\ IF r.err = ""
           THEN /\ got' = [got EXCEPT ![u] = [id |-> id, ret |-> r.ret]]
                /\ pc' = [pc EXCEPT ![u] = "looked"]
                /\ UNCHANGED exc
           ELSE Fail(u, r.err) /\ UNCHANGED got
    /\ UNCHANGED <<db, made, session, user_repo, invoice_repo, audit_repo,
                   user_id, invoice_id, raised, printed, flush_result, bill_arg, mapped>>

\* A scope whose body is billing_service.create_invoice(uid, 10000) for a
\* user id the caller brings along.
BillUser_example(u) ==
    /\ pc[u] = "body"
    /\ \E uid \in 1..MaxScopes, okGet, okFlush \in BOOLEAN :
        LET r == BillingService_create_invoice(sessions, db, user_repo[u],
                     invoice_repo[u], uid, AmountCents, okGet, okFlush) IN
        /\ okGet \/ okFlush
        /\ okFlush => NoOtherWriter(sessions, invoice_repo[u])
        /\ bill_arg' = [bill_arg EXCEPT ![u] = uid]
        /\ sessions' = r.ss
        /\ IF r.err = ""
           THEN /\ invoice_id' = [invoice_id EXCEPT ![u] = r.ret]
                /\ pc' = [pc EXCEPT ![u] = "billed"]
                /\ UNCHANGED exc
           ELSE Fail(u, r.err) /\ UNCHANGED invoice_id
    /\ UNCHANGED <<db, made, session, user_repo, invoice_repo, audit_repo,
                   user_id, raised, printed, got, flush_result, mapped>>

\* The steps of a caller of domain_impl.py; the program of uow_v1.py rests.
RegisterUser(u) == RegisterUser_example(u) /\ UNCHANGED v1

CreateInvoice(u) == CreateInvoice_example(u) /\ UNCHANGED v1

RecordAudit(u) == RecordAudit_example(u) /\ UNCHANGED v1

PrintInvoiceId(u) == PrintInvoiceId_example(u) /\ UNCHANGED v1

LookupUser(u) == LookupUser_example(u) /\ UNCHANGED v1

BillUser(u) == BillUser_example(u) /\ UNCHANGED v1

\* The end of the `with` block: the body returned or raised.
ExitScope(u) ==
    /\ pc[u] \in {"printed", "looked", "billed", "raising"}
    /\ uow_exit(u)
    /\ UNCHANGED v1

\* uow.flush() called in the body, after the audit entry was recorded.
CallFlush(u) ==
    /\ pc[u] = "audited"
    /\ uow_flush(u)
    /\ UNCHANGED v1

\* uow.flush() called outside a scope: before the instance was entered, or
\* after its scope has exited.
FlushOutsideScope(u) ==
    /\ \/ pc[u] = "new" /\ flush_result[u] = "none"
       \/ pc[u] = "exited"
    /\ uow_flush(u)
    /\ UNCHANGED v1

\* uow_v1.py before anything ran: its storage and sessions, and for each UoW
\* instance its _session, its members users / invoices / audit, the values its
\* services returned to the body, the error of the body and what the `with`
\* statement raised.
V1_Init ==
    [db |-> EmptyTables,
     sessions |-> [h \in Handles |-> NewSession],
     made |-> 0,
     session |-> [u \in Uows |-> None],
     users |-> [u \in Uows |-> None],
     invoices |-> [u \in Uows |-> None],
     audit |-> [u \in Uows |-> None],
     user_id |-> [u \in Uows |-> None],
     invoice_id |-> [u \in Uows |-> None],
     email |-> [u \in Uows |-> {}],
     exc |-> [u \in Uows |-> <<>>],
     raised |-> [u \in Uows |-> <<>>],
     printed |-> [u \in Uows |-> None]]

InitProgram ==
    /\ v1 = V1_Init
    /\ db = EmptyTables
    /\ sessions = [h \in Handles |-> NewSession]
    /\ made = 0
    /\ session = [u \in Uows |-> None]
    /\ user_repo = [u \in Uows |-> None]
    /\ invoice_repo = [u \in Uows |-> None]
    /\ audit_repo = [u \in Uows |-> None]
    /\ pc = [u \in Uows |-> "new"]
    /\ user_id = [u \in Uows |-> None]
    /\ invoice_id = [u \in Uows |-> None]
    /\ exc = [u \in Uows |-> <<>>]
    /\ raised = [u \in Uows |-> <<>>]
    /\ printed = [u \in Uows |-> None]
    /\ got = [u \in Uows |-> [id |-> None, ret |-> {}]]
    /\ flush_result = [u \in Uows |-> "none"]
    /\ bill_arg = [u \in Uows |-> None]

Init == InitProgram /\ mapped = NotMapped

\* Callers that keep to the protocol of main(): one `with` per instance.
Next ==
    \E u \in Uows :
        \/ With(u)
        \/ RegisterUser(u)
        \/ CreateInvoice(u)
        \/ RecordAudit(u)
        \/ PrintInvoiceId(u)
        \/ LookupUser(u)
        \/ BillUser(u)
        \/ ExitScope(u)
        \/ CallFlush(u)

Spec == Init /\ [][Next]_vars

\* user_service.register_user(...) on a UserService that was built on
\* uow.user_repo inside the scope and kept, called after the scope has exited.
UseAfterExit(u) ==
    /\ pc[u] = "exited" /\ user_repo[u] # None
    /\ \E ok \in BOOLEAN :
        LET h == user_repo[u]
            reused == [sessions EXCEPT ![h] = SessionAutobegin(@)]
            r == UserService_register_user(reused, db, h, Email, ok)
        IN  /\ ok => NoOtherWriter(sessions, h)
            /\ sessions' = r.ss
            /\ IF r.err = ""
               THEN /\ user_id' = [user_id EXCEPT ![u] = r.ret]
                    /\ pc' = [pc EXCEPT ![u] = "used_after_exit"]
               ELSE /\ pc' = [pc EXCEPT ![u] = "use_after_exit_failed"]
                    /\ UNCHANGED user_id
    /\ UNCHANGED <<db, made, session, user_repo, invoice_repo, audit_repo,
                   invoice_id, exc, raised, printed, got, flush_result, bill_arg,
                   mapped, v1>>

\* Callers that also use an instance outside its scope.
Misuse ==
    \E u \in Uows :
        \/ Reenter(u)
        \/ FlushOutsideScope(u)
        \/ UseAfterExit(u)

SpecMisuse == Init /\ [][Next \/ Misuse]_vars

----------------------------------------------------------------------------
(* mappers.py on its own: a domain value is mapped to its row, the flush   *)
(* of the session gives the row its key, and the row is mapped back.       *)

\* Largest key a row is given here.
MaxId == 3

Emails == {"michelle@example.com", "a@example.com", ""}
Amounts == {0, AmountCents, 12345}

NewUsers == {[email |-> e] : e \in Emails}
NewInvoices == {[user_id |-> i, amount_cents |-> a] : i \in 1..MaxId, a \in Amounts}
AuditEntries == {[message |-> PurchaseMessage(i, j)] : i, j \in 1..MaxId}

Mappable(kind, xs) == {[kind |-> kind, stage |-> "domain", x |-> x, v |-> x] : x \in xs}

InitMappers ==
    /\ InitProgram
    /\ mapped \in Mappable("user", NewUsers) \cup Mappable("invoice", NewInvoices)
                    \cup Mappable("audit", AuditEntries)

program_vars == <<db, sessions, made, session, user_repo, invoice_repo, audit_repo,
                  pc, user_id, invoice_id, exc, raised, printed, got, flush_result,
                  bill_arg, v1>>

\* new_user_to_row / new_invoice_to_row / audit_entry_to_row
MapToRow ==
    /\ mapped.stage = "domain"
    /\ mapped' = [mapped EXCEPT !.stage = "row", !.v = to_row(mapped.kind, mapped.x)]
    /\ UNCHANGED program_vars

\* session.flush() gives the row its primary key.
RowFlushed ==
    /\ mapped.stage = "row" /\ mapped.v.id = None
    /\ \E id \in 1..MaxId : mapped' = [mapped EXCEPT !.v.id = id]
    /\ UNCHANGED program_vars

\* user_row_to_domain / invoice_row_to_domain
MapToDomain ==
    /\ mapped.stage = "row"
    /\ row_to_domain(mapped.kind, mapped.v) # AttributeError
    /\ mapped' = [mapped EXCEPT !.stage = "back",
                                 !.v = row_to_domain(mapped.kind, mapped.v)]
    /\ UNCHANGED program_vars

NextMappers == MapToRow \/ RowFlushed \/ MapToDomain

SpecMappers == InitMappers /\ [][NextMappers]_vars

----------------------------------------------------------------------------
(* uow_v1.py: the same protocol with services that take the UoW per call   *)
(* and repositories that return ids and emails.  Its program runs in v1,   *)
(* on its own storage and sessions.                                        *)

V1_SqlAlchemyUserRepo_get_email(ss, d, h, id, ok) ==
    LET s == Logged(ss[h], "get", "uow_v1.SqlAlchemyUserRepo.get_email", ok)
        row == SessionGet(s, d, id)
    IN  [ss |-> [ss EXCEPT ![h] = s],
         err |-> IF ok THEN "" ELSE InfraError,
         ret |-> IF ok THEN {r.email : r \in row} ELSE {}]

V1_SqlAlchemyUserRepo_add_user(ss, d, h, email, ok) ==
    LET by == "uow_v1.SqlAlchemyUserRepo.add_user"
        row == [id |-> None, email |-> email]
        a == SessionAdd(ss[h], "users", row, by)
        f == SessionFlush(a, d, by, ok)
    IN  [ss |-> [ss EXCEPT ![h] = f],
         err |-> IF ok THEN "" ELSE InfraError,
         ret |-> IF ok THEN LastFlushed(f, "users").id ELSE None]

\* Variant: add_invoice returns the id of the row without a flush.
V1_SqlAlchemyInvoiceRepo_add_invoice_unflushed(ss, d, h, user_id_, amount_cents, ok) ==
    LET by == "uow_v1.SqlAlchemyInvoiceRepo.add_invoice"
        row == [id |-> None, user_id |-> user_id_, amount_cents |-> amount_cents]
    IN  [ss |-> [ss EXCEPT ![h] = SessionAdd(ss[h], "invoices", row, by)],
         err |-> "",
         ret |-> row.id]

V1_SqlAlchemyInvoiceRepo_add_invoice(ss, d, h, user_id_, amount_cents, ok) ==
    LET by == "uow_v1.SqlAlchemyInvoiceRepo.add_invoice"
        row == [id |-> None, user_id |-> user_id_, amount_cents |-> amount_cents]
        a == SessionAdd(ss[h], "invoices", row, by)
        f == SessionFlush(a, d, by, ok)
    IN  [ss |-> [ss EXCEPT ![h] = f],
         err |-> IF ok THEN "" ELSE InfraError,
         ret |-> IF ok THEN LastFlushed(f, "invoices").id ELSE None]

V1_SqlAlchemyAuditRepo_record(ss, d, h, message) ==
    [ss |-> [ss EXCEPT ![h] = SessionAdd(ss[h], "audit", [id |-> None, message |-> message],
                                         "uow_v1.SqlAlchemyAuditRepo.record")],
     err |-> ""]

\* The services: hu, hi, ha are the sessions behind uow.users, uow.invoices
\* and uow.audit of the UoW passed in.
V1_UserService_register_user(ss, d, hu, email, ok) ==
    V1_SqlAlchemyUserRepo_add_user(ss, d, hu, email, ok)

V1_BillingService_create_invoice(ss, d, hu, hi, uid, amount_cents, okGet, okFlush) ==
    LET found == V1_SqlAlchemyUserRepo_get_email(ss, d, hu, uid, okGet)
        added == V1_SqlAlchemyInvoiceRepo_add_invoice(found.ss, d, hi, uid,
                                                      amount_cents, okFlush)
    IN  IF found.err # "" THEN [ss |-> found.ss, err |-> found.err, ret |-> None]
        ELSE IF found.ret = {}
        THEN [ss |-> found.ss, err |-> "ValueError: user not found", ret |-> None]
        ELSE added

V1_AuditService_record(ss, d, ha, message) ==
    V1_SqlAlchemyAuditRepo_record(ss, d, ha, message)

V1_deps_factory(s) == [users |-> s, invoices |-> s, audit |-> s]

V1_uow_exit_block(s, d, clean, ok) ==
    LET by == "uow_v1.SqlAlchemyUnitOfWork.__exit__"
        c == SessionCommit(s, d, by, ok)
        r == SessionRollback(s, by, ok)
    IN  [s |-> SessionClose(IF clean THEN c.s ELSE r, by),
         db |-> IF clean THEN c.db ELSE d,
         err |-> IF ok THEN "" ELSE IF clean THEN "CommitError" ELSE "RollbackError"]

\* What the step made the session of instance u answer: the calls it added to
\* the log of that session in the program of domain_impl.py.
NewEntries(u) ==
    LET h == session'[u]
    IN  SubSeq(sessions'[h].calls, Len(sessions[h].calls) + 1, Len(sessions'[h].calls))

\* The handle let the call op of this step succeed (TRUE when there was none):
\* uow_v1.py meets the same failures of the handle.
StepOk(u, op) ==
    \A i \in 1..Len(NewEntries(u)) : NewEntries(u)[i].op = op => NewEntries(u)[i].ok

\* What a service call leaves in v1: the sessions, and the error it raised.
V1_After(u, r) ==
    [v1 EXCEPT !.sessions = r.ss,
               !.exc[u] = IF r.err = "" THEN @ ELSE <<r.err>>]

\* uow_v1.py __enter__, with the begin() of the step failing or not.
uow_enter_v1(u) ==
    LET ok == StepOk(u, "begin")
        h == SessionFactory(v1.made)
        begun == SessionBegin([NewSession EXCEPT !.st = "created"],
                              "uow_v1.SqlAlchemyUnitOfWork.__enter__", ok)
        deps == V1_deps_factory(h)
    IN  v1' = [v1 EXCEPT !.made = h,
                         !.session[u] = h,
                         !.sessions[h] = begun,
                         !.users[u] = IF ok THEN deps.users ELSE @,
                         !.invoices[u] = IF ok THEN deps.invoices ELSE @,
                         !.audit[u] = IF ok THEN deps.audit ELSE @,
                         !.raised[u] = IF ok THEN <<>> ELSE <<InfraError>>,
                         !.user_id[u] = None,
                         !.invoice_id[u] = None,
                         !.email[u] = {},
                         !.exc[u] = <<>>,
                         !.printed[u] = None]

\* uow_v1.py __exit__(exc_type, exc, tb).
uow_exit_v1(u) ==
    LET ok == StepOk(u, "commit") /\ StepOk(u, "rollback")
        h == v1.session[u]
        x == V1_uow_exit_block(v1.sessions[h], v1.db, v1.exc[u] = <<>>, ok)
    IN  /\ h # None
        /\ v1' = [v1 EXCEPT !.db = x.db,
                            !.sessions[h] = x.s,
                            !.raised[u] = Propagated(v1.exc[u], x.err)]

\* uow_v1.py flush(), called in the body.
uow_flush_v1(u) ==
    IF v1.session[u] = None
    THEN v1' = [v1 EXCEPT !.exc[u] = <<"AssertionError">>]
    ELSE LET ok == StepOk(u, "flush")
             h == v1.session[u]
         IN  v1' = [v1 EXCEPT
                        !.sessions[h] = SessionFlush(v1.sessions[h], v1.db,
                                            "uow_v1.SqlAlchemyUnitOfWork.flush", ok),
                        !.exc[u] = IF ok THEN @ ELSE <<InfraError>>]

\* user_id = user_svc.register_user(uow, email)
RegisterUser_v1(u) ==
    LET r == V1_UserService_register_user(v1.sessions, v1.db, v1.users[u], Email,
                                          StepOk(u, "flush"))
    IN  v1' = [V1_After(u, r) EXCEPT !.user_id[u] = IF r.err = "" THEN r.ret ELSE @]

\* invoice_id = billing_svc.create_invoice(uow, user_id, amount_cents)
CreateInvoice_v1(u) ==
    LET r == V1_BillingService_create_invoice(v1.sessions, v1.db, v1.users[u],
                 v1.invoices[u], v1.user_id[u], AmountCents,
                 StepOk(u, "get"), StepOk(u, "flush"))
    IN  v1' = [V1_After(u, r) EXCEPT !.invoice_id[u] = IF r.err = "" THEN r.ret ELSE @]

\* audit_svc.record(uow, message), with the message the body of
\* uow_example.py composes.
RecordAudit_v1(u) ==
    LET r == V1_AuditService_record(v1.sessions, v1.db, v1.audit[u],
                 PurchaseMessage(v1.user_id[u], v1.invoice_id[u]))
    IN  v1' = V1_After(u, r)

\* print("invoice_id:", invoice_id)
PrintInvoiceId_v1(u) == v1' = [v1 EXCEPT !.printed[u] = v1.invoice_id[u]]

\* A scope whose body is uow.users.get_email(id), for the id of the step.
LookupUser_v1(u) ==
    \E id \in 1..MaxScopes :
        /\ got'[u].id # None => id = got'[u].id
        /\ got'[u].id = None => id = 1
        /\ LET r == V1_SqlAlchemyUserRepo_get_email(v1.sessions, v1.db, v1.users[u],
                                                    id, StepOk(u, "get"))
           IN  v1' = [V1_After(u, r) EXCEPT !.email[u] = r.ret]

\* A scope whose body is billing_svc.create_invoice(uow, uid, amount_cents),
\* for the user id of the step.
BillUser_v1(u) ==
    LET r == V1_BillingService_create_invoice(v1.sessions, v1.db, v1.users[u],
                 v1.invoices[u], bill_arg'[u], AmountCents,
                 StepOk(u, "get"), StepOk(u, "flush"))
    IN  v1' = [V1_After(u, r) EXCEPT !.invoice_id[u] = IF r.err = "" THEN r.ret ELSE @]

\* One caller drives both programs: each step makes the same call on the UoW
\* and services of domain_impl.py / services.py and on those of uow_v1.py.
WithBoth(u) ==
    /\ pc[u] = "new"
    /\ \A v \in Uows : v < u => pc[v] # "new"
    /\ uow_enter(u)
    /\ uow_enter_v1(u)

RegisterUserBoth(u) == RegisterUser_example(u) /\ RegisterUser_v1(u)

CreateInvoiceBoth(u) == CreateInvoice_example(u) /\ CreateInvoice_v1(u)

RecordAuditBoth(u) == RecordAudit_example(u) /\ RecordAudit_v1(u)

PrintInvoiceIdBoth(u) == PrintInvoiceId_example(u) /\ PrintInvoiceId_v1(u)

LookupUserBoth(u) == LookupUser_example(u) /\ LookupUser_v1(u)

BillUserBoth(u) == BillUser_example(u) /\ BillUser_v1(u)

CallFlushBoth(u) ==
    /\ pc[u] = "audited"
    /\ uow_flush(u)
    /\ uow_flush_v1(u)

ExitScopeBoth(u) ==
    /\ pc[u] \in {"printed", "looked", "billed", "raising"}
    /\ uow_exit(u)
    /\ uow_exit_v1(u)

NextVariants ==
    \E u \in Uows :
        \/ WithBoth(u)
        \/ RegisterUserBoth(u)
        \/ CreateInvoiceBoth(u)
        \/ RecordAuditBoth(u)
        \/ PrintInvoiceIdBoth(u)
        \/ LookupUserBoth(u)
        \/ BillUserBoth(u)
        \/ CallFlushBoth(u)
        \/ ExitScopeBoth(u)

SpecVariants == Init /\ [][NextVariants]_vars

----------------------------------------------------------------------------
(* Properties.                                                             *)

Exited(u) == pc[u] \in {"exited", "exited_flushed"}

Tables == {"users", "invoices", "audit"}

\* The transaction-ending and -starting calls made on a session, in order.
Lifecycle(s) ==
    LET l == SelectSeq(s.calls, LAMBDA c : c.op \in {"begin", "commit", "rollback", "close"})
    IN  [i \in 1..Len(l) |-> l[i].op]

Calls(s, op) == {i \in 1..Len(s.calls) : s.calls[i].op = op}

\* The session of the scope u is in or has left.
Scope(u) == sessions[session[u]]

\* C1. Atomicity: once a scope whose body raised has exited, nothing it wrote
\* is in committed storage: its session made no row durable, and committed
\* storage holds exactly the rows that commits made durable.
C1_Atomicity ==
    /\ \A u \in Uows :
        (Exited(u) /\ exc[u] # <<>>) =>
            /\ Scope(u).wrote = EmptyTables
            /\ ~Scope(u).committed
    /\ \A t \in Tables : db[t] = UNION {sessions[h].wrote[t] : h \in Handles}

\* C1 witness: the body failed in create_invoice after the user had been
\* written, and the scope has exited.
C1_Witness ==
    \E u \in Uows :
        Exited(u) /\ exc[u] # <<>> /\ user_id[u] # None /\ bill_arg[u] = None

\* C2 as stated: after a body that did not raise, __exit__ has called
\* commit() once, rollback() never, then close(), and the UoW is Committed.
C2_Original ==
    \A u \in Uows :
        (Exited(u) /\ exc[u] = <<>>) =>
            /\ Lifecycle(Scope(u)) = <<"begin", "commit", "close">>
            /\ UowState(u) = "Committed"

\* C2. Clean exit: after a body that did not raise, __exit__ has called
\* commit() once, rollback() never, then close(); the UoW is Committed when
\* commit() returned, and RolledBack with the commit error raised when it did not.
C2_CleanExitCommits ==
    \A u \in Uows :
        (Exited(u) /\ exc[u] = <<>>) =>
            /\ Lifecycle(Scope(u)) = <<"begin", "commit", "close">>
            /\ \A i \in Calls(Scope(u), "commit") :
                IF Scope(u).calls[i].ok
                THEN UowState(u) = "Committed" /\ raised[u] = <<>>
                ELSE UowState(u) = "RolledBack" /\ raised[u] = <<"CommitError">>

\* C2 witness: the purchase workflow ran to its end and the scope committed.
C2_Witness ==
    \E u \in Uows :
        Exited(u) /\ exc[u] = <<>> /\ printed[u] # None /\ UowState(u) = "Committed"

\* C3 as stated: after a body that raised, __exit__ has called rollback(),
\* never commit(), then close(), the caller gets the body's error unchanged
\* and the UoW is RolledBack.
C3_Original ==
    \A u \in Uows :
        (Exited(u) /\ exc[u] # <<>>) =>
            /\ Lifecycle(Scope(u)) = <<"begin", "rollback", "close">>
            /\ raised[u] = exc[u]
            /\ UowState(u) = "RolledBack"

\* C3. Error exit: after a body that raised, __exit__ has called rollback(),
\* never commit(), then close(), and the UoW is RolledBack; the caller gets the
\* body's error unchanged when rollback() returned, and the rollback error
\* with the body's error as its context when rollback() raised.
C3_ErrorExitRollsBack ==
    \A u \in Uows :
        (Exited(u) /\ exc[u] # <<>>) =>
            /\ Lifecycle(Scope(u)) = <<"begin", "rollback", "close">>
            /\ UowState(u) = "RolledBack"
            /\ \A i \in Calls(Scope(u), "rollback") :
                raised[u] = IF Scope(u).calls[i].ok THEN exc[u]
                            ELSE <<"RollbackError">> \o exc[u]

\* C3 witness: a body error went through a rollback that returned.
C3_Witness ==
    \E u \in Uows : Exited(u) /\ exc[u] # <<>> /\ raised[u] = exc[u]

\* C4. Release exactly once: a session that began is closed by the exit of its
\* scope, on every exit path, once, and after the one commit or rollback.
C4_ReleaseExactlyOnce ==
    /\ \A u \in Uows : Exited(u) => Scope(u).st = "closed"
    /\ \A h \in Handles :
        LET l == Lifecycle(sessions[h]) IN
        /\ sessions[h].st = "begun" => l = <<"begin">>
        /\ sessions[h].st = "closed" =>
            l \in {<<"begin", "commit", "close">>, <<"begin", "rollback", "close">>}

\* C4 witness: commit() raised and the scope has exited.
C4_Witness ==
    \E u \in Uows :
        Exited(u) /\ \E i \in Calls(Scope(u), "commit") : ~Scope(u).calls[i].ok

\* C5. Release on error: when the body raised and rollback() raised too, the
\* session is closed and the error the caller gets carries the body's error.
C5_OriginalErrorNotMasked ==
    \A u \in Uows :
        (Exited(u) /\ exc[u] # <<>>) =>
            \A i \in Calls(Scope(u), "rollback") :
                ~Scope(u).calls[i].ok =>
                    /\ Calls(Scope(u), "close") # {}
                    /\ Len(raised[u]) >= Len(exc[u])
                    /\ SubSeq(raised[u], Len(raised[u]) - Len(exc[u]) + 1,
                              Len(raised[u])) = exc[u]

\* C5 witness: the body raised, rollback() raised, the scope has exited.
C5_Witness ==
    \E u \in Uows :
        /\ Exited(u) /\ exc[u] # <<>>
        /\ \E i \in Calls(Scope(u), "rollback") : ~Scope(u).calls[i].ok

\* C6 as stated: a UoW instance that is Active or terminal keeps its session,
\* and a terminal instance stays in its terminal state: __enter__ never gives
\* it another session or makes it Active again.
C6_SingleUse ==
    [][\A u \in Uows :
        /\ UowState(u) \in {"Active", "Committed", "RolledBack"} =>
                session'[u] = session[u]
        /\ UowState(u) \in {"Committed", "RolledBack"} =>
                UowState(u)' = UowState(u)]_vars

\* C7 as stated: flush() reaches the session only while the UoW is Active:
\* no flush() of the UoW is made on a session that has not begun or that has
\* been closed, and a flush() while Active leaves the session begun.
C7_FlushOnlyWhileActive ==
    \A h \in Handles :
        \A i \in 1..Len(sessions[h].calls) :
            sessions[h].calls[i].by = "SqlAlchemyUnitOfWork.flush" =>
                /\ \E j \in 1..(i - 1) :
                        sessions[h].calls[j].op = "begin" /\ sessions[h].calls[j].ok
                /\ \A j \in 1..(i - 1) : sessions[h].calls[j].op # "close"

\* C8. Only the UoW starts or ends a transaction: every begin(), commit(),
\* rollback() and close() on a session is made by __enter__ or __exit__, and an
\* error raised below the UoW is the one the scope body raises: while the body
\* runs no call on its session has failed, and after a failed call of a
\* repository the body has raised.
C8_OnlyUowEndsTransaction ==
    /\ \A h \in Handles :
        \A i \in 1..Len(sessions[h].calls) :
            LET c == sessions[h].calls[i] IN
            /\ c.op = "begin" => c.by = "SqlAlchemyUnitOfWork.__enter__"
            /\ c.op \in {"commit", "rollback", "close"} =>
                    c.by = "SqlAlchemyUnitOfWork.__exit__"
    /\ \A u \in Uows :
        /\ pc[u] \in {"body", "registered", "invoiced", "audited", "flushed",
                      "printed", "looked"} =>
                /\ exc[u] = <<>>
                /\ \A i \in 1..Len(Scope(u).calls) : Scope(u).calls[i].ok
        /\ (pc[u] \in {"raising", "exited", "exited_flushed"} /\
            \E i \in 1..Len(Scope(u).calls) :
                /\ ~Scope(u).calls[i].ok
                /\ Scope(u).calls[i].by \notin {"SqlAlchemyUnitOfWork.__exit__",
                                                "SqlAlchemyUnitOfWork.flush"})
           => exc[u] = <<InfraError>>

\* C8 witness: a session on which the repositories added rows and that the UoW
\* has closed.
C8_Witness ==
    \E h \in Handles :
        /\ \E i \in Calls(sessions[h], "add") :
                sessions[h].calls[i].by = "SqlAlchemyAuditRepo.record"
        /\ Calls(sessions[h], "close") # {}

\* C9. Handle exclusivity: two UoW instances that are Active at the same time
\* have different sessions, and no repository of one is bound to the session
\* of the other.
C9_HandleExclusivity ==
    \A u, v \in Uows :
        (u # v /\ UowState(u) = "Active" /\ UowState(v) = "Active") =>
            /\ session[u] # session[v]
            /\ user_repo[u] # session[v]
            /\ invoice_repo[u] # session[v]
            /\ audit_repo[u] # session[v]

\* C9 witness: two instances are Active together, each with a write pending
\* or made.
C9_Witness ==
    \E u, v \in Uows :
        /\ u # v /\ UowState(u) = "Active" /\ UowState(v) = "Active"
        /\ pc[u] = "registered" /\ pc[v] = "body"

\* The scope of u ran the purchase workflow to its end and its commit returned.
Purchased(u) ==
    Exited(u) /\ exc[u] = <<>> /\ printed[u] # None /\ Scope(u).committed

\* C10. Commit durability: once a scope that ran the purchase workflow has
\* exited with its commit done, committed storage holds its user, its invoice
\* with that user's id and its audit entry, and a users.get of that id made
\* afterwards in another scope returns that user.
C10_CommitDurability ==
    [][\A u \in Uows :
        /\ Purchased(u)' =>
            /\ [id |-> user_id'[u], email |-> Email] \in db'.users
            /\ [id |-> invoice_id'[u], user_id |-> user_id'[u],
                amount_cents |-> AmountCents] \in db'.invoices
            /\ \E a \in db'.audit :
                    a.message = PurchaseMessage(user_id'[u], invoice_id'[u])
        /\ \A v \in Uows \ {u} :
            (Purchased(u) /\ pc[v] = "body" /\ pc'[v] = "looked"
                /\ got'[v].id = user_id[u]) =>
                    got'[v].ret = {[id |-> user_id[u], email |-> Email]}]_vars

\* C10 witness: a lookup made in a scope entered after the purchase was
\* committed has returned the purchase's user.
C10_Witness ==
    \E u, v \in Uows :
        /\ u # v /\ Purchased(u) /\ pc[v] = "looked"
        /\ session[v] > session[u]
        /\ got[v] = [id |-> user_id[u],
                     ret |-> {[id |-> user_id[u], email |-> Email]}]

\* The body of u's scope is past register_user.
Registered(u) == pc[u] \in {"registered", "invoiced", "audited", "flushed", "printed"}

\* What users.get(id) returns in the scope of u as it stands.
GetNow(u, id) == SqlAlchemyUserRepo_get(sessions, db, user_repo[u], id, TRUE).ret

\* The ids of the users some transaction can see: committed or written in an
\* open transaction.
VisibleUserIds ==
    Ids(db.users) \cup UNION {Ids(sessions[h].flushed.users) : h \in Handles}

\* C11 as stated: the id register_user returns is positive and was never
\* given to a user before (here: to a user another UoW instance registered),
\* users.get of it in the same scope returns the user with that id and the
\* same email, and the add has committed nothing.
C11_Original ==
    [][\A u \in Uows :
        (pc[u] = "body" /\ pc'[u] = "registered") =>
            /\ user_id'[u] > 0
            /\ \A v \in Uows \ {u} : user_id[v] # user_id'[u]
            /\ GetNow(u, user_id[u])' = {[id |-> user_id'[u], email |-> Email]}
            /\ UowState(u)' = "Active" /\ db' = db]_vars

\* C11. Identity assignment: the id register_user returns is positive and is
\* the id of no user that is committed or written in an open transaction;
\* from then on users.get of it in the same scope returns the user with that
\* id and the same email, and the add leaves the UoW Active and committed
\* storage as it was.
C11_IdentityAssignment ==
    [][\A u \in Uows :
        /\ (pc[u] = "body" /\ pc'[u] = "registered") =>
            /\ user_id'[u] > 0
            /\ user_id'[u] \notin VisibleUserIds
            /\ UowState(u)' = "Active" /\ db' = db
        /\ Registered(u)' =>
            GetNow(u, user_id[u])' = {[id |-> user_id'[u], email |-> Email]}]_vars

\* C11 witness: register_user has returned in a scope that started after
\* another user was committed.
C11_Witness ==
    \E u \in Uows : pc[u] = "registered" /\ user_id[u] > 0 /\ db.users # {}

\* The calls SqlAlchemyInvoiceRepo.add made on the session of instance u.
InvoiceAdds(u) ==
    {i \in Calls(Scope(u), "add") : Scope(u).calls[i].by = "SqlAlchemyInvoiceRepo.add"}

\* The users.get of the scope of instance u came back with a result.
GetReturned(u) ==
    \E i \in Calls(Scope(u), "get") : Scope(u).calls[i].ok

\* C12 (referential precondition): a create_invoice for a user id that
\* users.get does not find in the current transaction raises the domain
\* error "user not found", makes no call of invoices.add and hands out no
\* invoice id; once that scope has exited, it has written no invoice.
C12_ReferentialPrecondition ==
    [][\A u \in Uows :
        /\ (pc[u] = "body" /\ bill_arg'[u] # None /\ GetReturned(u)'
                /\ GetNow(u, bill_arg'[u]) = {}) =>
            /\ pc'[u] = "raising"
            /\ exc'[u] = <<"ValueError: user not found">>
            /\ invoice_id'[u] = None
            /\ InvoiceAdds(u)' = {}
        /\ (Exited(u)' /\ exc'[u] = <<"ValueError: user not found">>) =>
            /\ InvoiceAdds(u)' = {}
            /\ Scope(u)'.wrote.invoices = {}
            /\ pc[u] = "raising" => db'.invoices = db.invoices]_vars

C12_Witness ==
    \E u \in Uows :
        /\ Exited(u) /\ exc[u] = <<"ValueError: user not found">>
        /\ bill_arg[u] # None /\ GetReturned(u)

\* The scope of instance u ran the purchase workflow.
RanWorkflow(u) == user_id[u] # None /\ bill_arg[u] = None

\* C13 as stated (caller-visible outcome): once a scope that ran the purchase
\* workflow has exited, either the caller has reported the invoice id, no error
\* reached it and the writes of the scope are committed, or it has reported
\* no invoice id, the error of the body reached it and the scope made no row
\* durable; an invoice id is never reported for a scope whose commit did not
\* succeed.
C13_CallerVisibleOutcome ==
    \A u \in Uows :
        (Exited(u) /\ RanWorkflow(u)) =>
            \/ /\ printed[u] # None
               /\ raised[u] = <<>>
               /\ Scope(u).committed
               /\ \E r \in db.invoices : r.id = printed[u] /\ r.user_id = user_id[u]
            \/ /\ printed[u] = None
               /\ exc[u] # <<>>
               /\ raised[u] # <<>>
               /\ raised[u][Len(raised[u])] = exc[u][1]
               /\ \A t \in Tables : Scope(u).wrote[t] = {}

\* What a session holds apart from the log of the calls made on it.
Work(s) == [st |-> s.st, pending |-> s.pending, flushed |-> s.flushed,
            wrote |-> s.wrote, committed |-> s.committed]

\* The users a transaction sees under an id: committed or written by itself.
UsersInView(u, id) ==
    {[id |-> r.id, email |-> r.email] :
        r \in {q \in db.users \cup Scope(u).flushed.users : q.id = id}}

\* The step is a users.get made by the body of the scope of u itself.
IsLookup(u) ==
    /\ pc[u] = "body" /\ pc'[u] # "body" /\ bill_arg'[u] = None
    /\ Len(Scope(u)'.calls) = Len(Scope(u).calls) + 1
    /\ Scope(u)'.calls[Len(Scope(u)'.calls)].op = "get"

\* C14 (users.get is a pure lookup): a users.get that storage answers returns
\* without raising; for an id with no user in the view of the transaction it
\* returns nothing, for an existing id the user with that id and email; the
\* pending writes, the written rows, committed storage and the UoW state stay
\* as they were.  The same holds of a users.get made in any Active state.
C14_GetIsPureLookup ==
    [][\A u \in Uows :
        /\ IsLookup(u) =>
            /\ db' = db
            /\ Work(Scope(u))' = Work(Scope(u))
            /\ UowState(u) = "Active" /\ UowState(u)' = "Active"
            /\ Scope(u)'.calls[Len(Scope(u)'.calls)].ok =>
                /\ pc'[u] = "looked" /\ exc'[u] = <<>>
                /\ got'[u].ret = UsersInView(u, got'[u].id)
                /\ Cardinality(got'[u].ret) <= 1
        /\ UowState(u)' = "Active" =>
            \A id \in 1..(MaxScopes + 1) :
                LET r == SqlAlchemyUserRepo_get(sessions, db, user_repo[u], id, TRUE)' IN
                /\ r.err = ""
                /\ r.ret = UsersInView(u, id)'
                /\ Work(r.ss[session'[u]]) = Work(Scope(u))'
                /\ \A h \in Handles \ {session'[u]} : r.ss[h] = sessions'[h]]_vars

C14_Witness ==
    \E u \in Uows :
        /\ pc[u] = "looked"
        /\ got[u].ret = {[id |-> got[u].id, email |-> Email]}

\* The domain value d agrees with the value x on the fields both have.
SameFields(kind, x, d) ==
    CASE kind = "user" -> d.email = x.email
      [] kind = "invoice" -> d.user_id = x.user_id /\ d.amount_cents = x.amount_cents
      [] kind = "audit" -> d.message = x.message

\* The row of a value of this kind maps back to the domain, to a value that
\* agrees with the one it came from and has the key of the row.
RoundTrips(kind, x, row) ==
    LET d == row_to_domain(kind, row) IN
    /\ d # AttributeError
    /\ SameFields(kind, x, d)
    /\ d.id = row.id

\* C15 as stated (mapper round-trip law): the row of every NewUser, NewInvoice
\* and AuditEntry maps back to a domain value that agrees with it on the
\* fields both have and carries the id of the row.
C15_Original ==
    /\ mapped.stage = "row" => RoundTrips(mapped.kind, mapped.x, mapped.v)
    /\ mapped.stage = "back" => SameFields(mapped.kind, mapped.x, mapped.v)

\* C15 (mapper round-trip law) as amended: the row of every NewUser and
\* NewInvoice maps back to a domain value that agrees with it on the fields
\* both have (email; user_id and amount_cents) and carries the id of the row;
\* the row of an AuditEntry carries its message, and has no mapping back.
C15_MapperRoundTrip ==
    /\ (mapped.stage = "row" /\ mapped.kind \in {"user", "invoice"}) =>
            RoundTrips(mapped.kind, mapped.x, mapped.v)
    /\ (mapped.stage = "row" /\ mapped.kind = "audit") =>
            /\ mapped.v.message = mapped.x.message
            /\ row_to_domain(mapped.kind, mapped.v) = AttributeError
    /\ mapped.stage = "back" => SameFields(mapped.kind, mapped.x, mapped.v)

C15_Witness ==
    /\ mapped.stage = "back" /\ mapped.kind = "invoice"
    /\ mapped.v.id # None /\ mapped.v.id # mapped.v.user_id

\* Control is back with the caller of `with uow:` for instance u.
Returned(u) == Exited(u) \/ pc[u] = "enter_failed"

\* C16 as stated (no handle leak on failed acquisition): every session a UoW
\* obtained from the session factory is closed once control is back with the
\* caller, also when begin() raised in __enter__, in which case the body did
\* not run and __exit__ was not called.
C16_NoHandleLeak ==
    \A u \in Uows :
        (Returned(u) /\ session[u] # None) =>
            /\ Scope(u).st = "closed"
            /\ Calls(Scope(u), "close") # {}

\* C17 (shared handle within a scope): whenever a UoW is Active, its user,
\* invoice and audit repositories are bound to one session, the session of the
\* UoW, which __enter__ began and which has not been ended; no other instance
\* has that session; and the exit of the scope commits or rolls back and
\* closes that same session and touches no other.
C17_SharedHandle ==
    [][\A u \in Uows :
        /\ UowState(u)' = "Active" =>
            /\ session'[u] \in Handles
            /\ user_repo'[u] = session'[u]
            /\ invoice_repo'[u] = session'[u]
            /\ audit_repo'[u] = session'[u]
            /\ Lifecycle(Scope(u))'[Len(Lifecycle(Scope(u))')] = "begin"
            /\ \E i \in Calls(Scope(u), "begin")' :
                    /\ Scope(u)'.calls[i].by = "SqlAlchemyUnitOfWork.__enter__"
                    /\ \A j \in Calls(Scope(u), "close")' : j < i
            /\ \A v \in Uows \ {u} : session'[v] # session'[u]
        /\ (UowState(u) = "Active" /\ Exited(u)') =>
            /\ session'[u] = session[u]
            /\ Scope(u)'.st = "closed"
            /\ \A h \in Handles \ {session[u]} : sessions'[h] = sessions[h]]_vars

C17_Witness ==
    \E u, v \in Uows :
        /\ Exited(v) /\ Scope(v).st = "closed"
        /\ UowState(u) = "Active" /\ pc[u] = "audited"
        /\ audit_repo[u] = session[u] /\ session[u] # session[v]

RepositoryMethods ==
    {"SqlAlchemyUserRepo.get", "SqlAlchemyUserRepo.add",
     "SqlAlchemyInvoiceRepo.add", "SqlAlchemyAuditRepo.record"}

\* C18 as stated (no use after exit): once the scope of a UoW has exited and
\* its session is closed, a call on its repositories is rejected: no call of a
\* repository reaches a session after its close(), none returns a result, and
\* committed storage holds only rows that a commit of a scope made durable.
C18_NoUseAfterExit ==
    /\ \A h \in Handles :
        \A i \in 1..Len(sessions[h].calls) :
            sessions[h].calls[i].by \in RepositoryMethods =>
                \A j \in 1..(i - 1) : sessions[h].calls[j].op # "close"
    /\ \A u \in Uows : pc[u] # "used_after_exit"
    /\ \A t \in Tables : db[t] = UNION {sessions[h].wrote[t] : h \in Handles}

\* The calls on the session of u that a repository method made as op.
CallsBy(u, op, by) == {i \in Calls(Scope(u), op) : Scope(u).calls[i].by = by}

\* C19 (referential integrity of committed data): every invoice in committed
\* storage has the id of a user in committed storage as its user_id; in the
\* purchase workflow the invoice written has the id of the user registered
\* earlier in the same scope; and the audit entry is recorded after the invoice
\* id was assigned, with that id and that user id.
C19_ReferentialIntegrity ==
    [][/\ \A r \in db'.invoices : \E usr \in db'.users : usr.id = r.user_id
       /\ \A u \in Uows :
            /\ (pc[u] = "registered" /\ pc'[u] = "invoiced") =>
                /\ user_id[u] \in Ids(Scope(u).flushed.users)
                /\ invoice_id'[u] > 0
                /\ Scope(u)'.flushed.invoices \ Scope(u).flushed.invoices =
                        {[id |-> invoice_id'[u], user_id |-> user_id[u],
                          amount_cents |-> AmountCents]}
            /\ (pc[u] = "invoiced" /\ pc'[u] = "audited") =>
                /\ invoice_id[u] \in Ids(Scope(u).flushed.invoices)
                /\ Scope(u)'.pending.audit =
                        <<[id |-> None, message |-> PurchaseMessage(user_id[u], invoice_id[u])]>>
                /\ \A i \in CallsBy(u, "add", "SqlAlchemyAuditRepo.record")' :
                    \E j \in CallsBy(u, "flush", "SqlAlchemyInvoiceRepo.add")' :
                        j < i /\ Scope(u)'.calls[j].ok]_vars

C19_Witness ==
    \E u, v \in Uows :
        /\ Purchased(u)
        /\ Exited(v) /\ bill_arg[v] = user_id[u] /\ Scope(v).committed
        /\ \E r \in db.invoices : r.id = invoice_id[v] /\ r.user_id = user_id[u]

\* The calls the step added to the log of the session of u, as <<op, by>>.
NewCalls(u) ==
    [i \in 1..(Len(Scope(u)'.calls) - Len(Scope(u).calls)) |->
        <<Scope(u)'.calls[Len(Scope(u).calls) + i].op,
          Scope(u)'.calls[Len(Scope(u).calls) + i].by>>]

\* C20 (audit is fire-and-forget until commit): audit.record adds its row to
\* the pending writes and calls no flush; users.add and invoices.add each add
\* their row and call flush exactly once after it; and the audit row of a scope
\* that has exited is in committed storage exactly if the commit of that scope
\* succeeded.
C20_AuditFireAndForget ==
    [][\A u \in Uows :
        /\ (pc[u] = "invoiced" /\ pc'[u] = "audited") =>
            /\ NewCalls(u) = <<<<"add", "SqlAlchemyAuditRepo.record">>>>
            /\ Len(Scope(u)'.pending.audit) = Len(Scope(u).pending.audit) + 1
            /\ Scope(u)'.flushed = Scope(u).flushed
            /\ db' = db
        /\ (pc[u] = "body" /\ pc'[u] # "body" /\ bill_arg'[u] = None /\ ~IsLookup(u)) =>
            NewCalls(u) = <<<<"add", "SqlAlchemyUserRepo.add">>,
                            <<"flush", "SqlAlchemyUserRepo.add">>>>
        /\ (pc[u] = "registered" /\ pc'[u] = "invoiced") =>
            NewCalls(u) = <<<<"get", "SqlAlchemyUserRepo.get">>,
                            <<"add", "SqlAlchemyInvoiceRepo.add">>,
                            <<"flush", "SqlAlchemyInvoiceRepo.add">>>>
        /\ (Exited(u)' /\ CallsBy(u, "add", "SqlAlchemyAuditRepo.record")' # {}) =>
            /\ Scope(u)'.wrote.audit \subseteq db'.audit
            /\ Scope(u)'.wrote.audit # {} <=> Scope(u)'.committed
            /\ Scope(u)'.committed <=>
                    \E i \in Calls(Scope(u), "commit")' : Scope(u)'.calls[i].ok
        /\ (~Exited(u)' /\ session'[u] # None) => Scope(u)'.wrote.audit = {}]_vars

C20_Witness ==
    \E u \in Uows :
        /\ Purchased(u) /\ flush_result[u] = "none"
        /\ Scope(u).wrote.audit # {} /\ Scope(u).wrote.audit \subseteq db.audit

\* The operations a session was asked for, in order, each with its outcome.
Ops(s) == [i \in 1..Len(s.calls) |-> <<s.calls[i].op, s.calls[i].ok>>]

============================================================================
